---- MODULE Spec2Model ----
(***************************************************************************)
(* The issue feature of the pull-request extension: the registrar's        *)
(* commands (issueFeatureRegistrar.ts) and the current-issue tracker       *)
(* (CurrentIssue), as a state machine.  Every asynchronous method is cut   *)
(* at its awaits: a flow's pc names the await it is suspended at, and one  *)
(* step resumes it and runs the synchronous code up to the next await.     *)
(***************************************************************************)
EXTENDS Integers, Sequences, FiniteSets, TLC

\* ---------------------------------------------------------------- bounds
MaxTrackers == 2
MaxCalls == 3
MaxCreated == 3

\* The issues worked on.
Issues == {1, 2}
Trackers == 1..MaxTrackers
Flows == {1, 2}

\* ------------------------------------------------------- values and text
\* JavaScript's undefined, and a rejected promise's marker; neither is a
\* string a user or the remote can produce.
Undefined == "<undefined>"
Thrown == "<thrown>"

Falsy(s) == s = Undefined \/ s = ""

\* The one account getAuthenticatedUser answers with, and the base branch of
\* the PR defaults.
TheUser == "u"
DefaultsBase == "main"

Title(n) == "title" \o ToString(n)

\* A template is a sequence of parts: a literal or a ${placeholder}.
BranchTemplates ==
    { <<"${user}", "/issue", "${issueNumber}">>,
      <<>> }

ScmTemplates ==
    { <<"${issueTitle}", " Fixes #", "${issueNumber}">>,
      <<"#", "${issueNumber}", " onto ", "${base}">> }
NotAString == <<"<not a string>">>

\* What the branch-name input box can return: a name, blank, or dismissed.
InputValues == { "topic", "", Undefined }

\* Text other than the tracker's that the commit-message box can hold.
TypedText == "wip"

SubstPart(part, n, base, user) ==
    CASE part = "${user}" -> IF user = Undefined THEN "" ELSE user
      [] part = "${issueNumber}" -> ToString(n)
      [] part = "${issueTitle}" -> Title(n)
      [] part = "${base}" -> IF base = Undefined THEN "" ELSE base
      [] OTHER -> part

RECURSIVE variableSubstitution(_, _, _, _)
variableSubstitution(template, n, base, user) ==
    IF template = <<>> THEN ""
    ELSE SubstPart(Head(template), n, base, user)
             \o variableSubstitution(Tail(template), n, base, user)

\* CurrentIssue.getBasicBranchName
getBasicBranchName(user, n) == user \o "/issue" \o ToString(n)

\* ----------------------------------------------------------------- state
VARIABLES
    tr,            \* the CurrentIssue objects constructed so far
    fl,            \* the command flows: position, locals, what they did
    saved,         \* StateManager's persisted per-issue state
    currentIssue,  \* StateManager.currentIssue: a tracker, or 0
    inputBox,      \* the repository's commit-message box
    HEAD,          \* the branch checked out
    shownItems,    \* status-bar items now visible in the window
    draftPRs,      \* draft PRs opened by createDraftPR, per issue
    created,       \* the issue-creation workflow
    calls          \* methods called directly on trackers so far

vars == <<tr, fl, saved, currentIssue, inputBox, HEAD, shownItems, draftPRs,
          created, calls>>

NoTracker ==
    [ made |-> FALSE, issue |-> 1, shouldPromptForBranch |-> FALSE,
      repo |-> FALSE, branchName |-> Undefined, user |-> Undefined,
      repoDefaults |-> Undefined, statusBarItem |-> "undefined",
      started |-> FALSE, stopped |-> FALSE ]

IdleFlow ==
    [ pc |-> "idle", cmd |-> "none", self |-> 0, pending |-> 0, arg |-> 0,
      defaults |-> Undefined, offersPatch |-> FALSE,
      createBranchConfig |-> "none",
      state |-> [branch |-> Undefined, hasDraftPR |-> FALSE],
      exists |-> FALSE, outcome |-> "none",
      \* what the flow did, for the properties
      steps |-> <<>>, messages |-> 0, prompted |-> FALSE, templated |-> FALSE,
      runIssue |-> 0, runPrompt |-> FALSE, entryBranch |-> Undefined,
      raw |-> Undefined, fellBack |-> FALSE,
      prevIssue |-> 0, prevEntry |-> Undefined, prevFell |-> FALSE,
      selfStarted |-> FALSE, selfStopped |-> FALSE, selfDefaults |-> Undefined,
      resolved |-> Undefined, co |-> <<>>, pushed |-> FALSE, draftCfg |-> FALSE,
      defaultsFailed |-> FALSE, checkouts |-> 0, entryBox |-> "" ]

\* createIssueInfo when it is undefined.
NoInfo == [set |-> FALSE, fromLine |-> FALSE, assignee |-> Undefined, text |-> <<>>]

\* The issue-creation workflow before any of its commands: the position of
\* the command or handler that runs, createIssueInfo, the quick input and
\* the variables its handlers close over, doCreateIssue's parameters, the
\* scratch document, and what the running command has done so far.
NoCreated ==
    [ pc |-> "idle", cmd |-> "none", outcome |-> "none",
      info |-> NoInfo,
      quickInput |-> "none",
      quick |-> [fromLine |-> FALSE, assignee |-> Undefined, text |-> <<>>],
      args |-> [fromLine |-> FALSE, assignee |-> Undefined, text |-> <<>>],
      draftOpen |-> FALSE,
      originFailed |-> FALSE,
      ops |-> 0, apiCalls |-> 0, edits |-> 0, urls |-> 0, refreshes |-> 0,
      messages |-> 0 ]

Init ==
    /\ tr = [t \in Trackers |-> NoTracker]
    /\ fl = [f \in Flows |-> IdleFlow]
    /\ saved = [n \in Issues |-> [branch |-> Undefined, hasDraftPR |-> FALSE]]
    /\ currentIssue = 0
    /\ inputBox = ""
    /\ HEAD = DefaultsBase
    /\ shownItems = 0
    /\ draftPRs = [n \in Issues |-> 0]
    /\ created = NoCreated
    /\ calls = 0

\* ------------------------------------------------------ flow bookkeeping
\* Labels at which a flow is running synchronous code, not suspended at an
\* await: no other flow runs while some flow is at one of them.
SyncLabels == {"cib_begin", "scm_begin", "sb_show", "cdp_begin", "stop_begin",
               "sci_begin", "sci_assign"}

Runnable(f) == \A g \in Flows \ {f} : fl[g].pc \notin SyncLabels

Quiet == \A g \in Flows : fl[g].pc \in {"idle", "done"}

\* A flow ends: its method's locals are gone.
Done(rec, outcome) ==
    [rec EXCEPT !.pc = "done", !.outcome = outcome,
                !.state = IdleFlow.state, !.exists = FALSE]

Log(rec, e) == [rec EXCEPT !.steps = Append(@, e)]

\* ------------------------------------------- CurrentIssue.startWorking
\* The calls of startWorking with the status bar set ahead of the branch.
startWorkingOrderStatusFirst ==
    <<"getPullRequestDefaults", "setStatusBar", "createIssueBranch",
      "setCommitMessageAndGitEvent", "createDraftPR">>

\* The calls of startWorking, in the order of its statements.
startWorkingOrder ==
    <<"getPullRequestDefaults", "createIssueBranch",
      "setCommitMessageAndGitEvent", "setStatusBar", "createDraftPR">>

EntryPc(call) ==
    CASE call = "getPullRequestDefaults" -> "sw_defaults"
      [] call = "createIssueBranch" -> "cib_begin"
      [] call = "setCommitMessageAndGitEvent" -> "scm_begin"
      [] call = "setStatusBar" -> "sb_show"
      [] call = "createDraftPR" -> "cdp_begin"

\* Where startWorking goes when `call` has returned: the next statement's
\* entry, or the end of the method.
After(rec, call) ==
    LET i == CHOOSE k \in 1..Len(startWorkingOrder) : startWorkingOrder[k] = call
    IN  IF i = Len(startWorkingOrder)
        THEN Done(rec, "returned")
        ELSE [rec EXCEPT !.pc = EntryPc(startWorkingOrder[i + 1])]

\* A catch of the PR-defaults fetch that ends startWorking.
AfterDefaultsAbort(rec, ok) ==
    IF ok THEN After(rec, "getPullRequestDefaults") ELSE Done(rec, "returned")

\* What the catch of the PR-defaults fetch leaves to do (lines 50-54).
AfterDefaults(rec, ok) == After(rec, "getPullRequestDefaults")

\* The outcomes of getUser: the cached user, or a call of
\* getAuthenticatedUser that answers or throws.
getUser(t) == IF tr[t].user # Undefined THEN {tr[t].user} ELSE {TheUser, Thrown}

\* A flow enters startWorking on tracker t: the record it starts with.
EnterStart(rec, t) ==
    [rec EXCEPT !.pc = EntryPc(startWorkingOrder[1]), !.self = t,
                !.steps = <<>>, !.prompted = FALSE, !.templated = FALSE,
                !.entryBranch = Undefined, !.resolved = Undefined, !.co = <<>>,
                !.raw = Undefined, !.fellBack = FALSE,
                !.pushed = FALSE, !.draftCfg = FALSE, !.defaultsFailed = FALSE,
                !.createBranchConfig = "none", !.runIssue = tr[t].issue,
                !.runPrompt = tr[t].shouldPromptForBranch]

\* await this.manager.getPullRequestDefaults() and its catch
sw_defaults(f) ==
    LET t == fl[f].self IN
    /\ fl[f].pc = "sw_defaults"
    /\ \E ok \in BOOLEAN :
         /\ tr' = [tr EXCEPT ![t].repoDefaults = IF ok THEN DefaultsBase ELSE @]
         /\ fl' = [fl EXCEPT ![f] =
                AfterDefaults(
                    [Log(@, "defaults") EXCEPT
                        !.defaultsFailed = ~ok,
                        !.messages = IF ok THEN @ ELSE @ + 1], ok)]
    /\ UNCHANGED <<saved, currentIssue, inputBox, HEAD, shownItems, draftPRs, created, calls>>

\* --------------------------------------- CurrentIssue.createIssueBranch
BranchConfigs == {"off", "on", "prompt"}

\* The choice of the source of the branch name without the saved branch.
BranchSourceWithoutSaved(prompt, createBranchConfig, savedBranch) ==
    IF createBranchConfig = "on" THEN "template" ELSE "input"

\* The choice of the source with the saved branch ahead of the prompt flag.
BranchSourceSavedFirst(prompt, createBranchConfig, savedBranch) ==
    IF ~Falsy(savedBranch) THEN "saved"
    ELSE IF createBranchConfig = "on" THEN "template"
    ELSE "input"

\* Where the branch name comes from (lines 111-118).
BranchSource(prompt, createBranchConfig, savedBranch) ==
    IF ~prompt /\ ~Falsy(savedBranch) THEN "saved"
    ELSE IF createBranchConfig = "on" THEN "template"
    ELSE "input"

\* lines 106-113: the configuration, the saved state, the first choice
cib_begin(f) ==
    LET t == fl[f].self
        n == tr[t].issue
        prompt == tr[t].shouldPromptForBranch
    IN
    /\ fl[f].pc = "cib_begin"
    /\ \E cfg \in BranchConfigs :
         LET cbc == IF prompt THEN "prompt" ELSE cfg
             state == saved[n]
             src == BranchSource(prompt, cbc, state.branch)
             rec == [fl[f] EXCEPT !.createBranchConfig = cbc]
         IN
         IF cbc = "off"
         THEN /\ fl' = [fl EXCEPT ![f] = After(rec, "createIssueBranch")]
              /\ UNCHANGED tr
         ELSE /\ tr' = [tr EXCEPT ![t].branchName =
                            IF src = "saved" THEN state.branch ELSE Undefined]
              /\ fl' = [fl EXCEPT ![f] =
                            [rec EXCEPT !.state = state,
                                        !.entryBranch = state.branch,
                                        !.pc = CASE src = "saved" -> "cib_basic"
                                                 [] src = "template" -> "cib_template"
                                                 [] src = "input" -> "cib_input"]]
    /\ UNCHANGED <<saved, currentIssue, inputBox, HEAD, shownItems, draftPRs, created, calls>>

\* line 115: await variableSubstitution(branchNameConfig, ..., await getUser())
cib_template(f) ==
    LET t == fl[f].self
        n == tr[t].issue
    IN
    /\ fl[f].pc = "cib_template"
    /\ \E tpl \in BranchTemplates, u \in getUser(t) :
         IF u = Thrown
         THEN /\ fl' = [fl EXCEPT ![f] = Done(@, "rejected")]
              /\ UNCHANGED tr
         ELSE /\ tr' = [tr EXCEPT ![t].user = u,
                                  ![t].branchName =
                                      variableSubstitution(tpl, n, Undefined, u)]
              /\ fl' = [fl EXCEPT ![f].templated = TRUE,
                                  ![f].raw = variableSubstitution(tpl, n, Undefined, u),
                                  ![f].pc = "cib_basic"]
    /\ UNCHANGED <<saved, currentIssue, inputBox, HEAD, shownItems, draftPRs, created, calls>>

\* line 117: await vscode.window.showInputBox(...)
cib_input(f) ==
    LET t == fl[f].self IN
    /\ fl[f].pc = "cib_input"
    /\ \E v \in InputValues :
         /\ tr' = [tr EXCEPT ![t].branchName = v]
         /\ fl' = [fl EXCEPT ![f].prompted = TRUE, ![f].raw = v,
                             ![f].pc = "cib_basic"]
    /\ UNCHANGED <<saved, currentIssue, inputBox, HEAD, shownItems, draftPRs, created, calls>>

\* lines 120-127: the deterministic name for a blank one, the save, and the
\* call of createOrCheckoutBranch
cib_basic(f) ==
    LET t == fl[f].self
        n == tr[t].issue
    IN
    /\ fl[f].pc = "cib_basic"
    /\ \E u \in IF Falsy(tr[t].branchName) THEN getUser(t) ELSE {tr[t].user} :
         IF u = Thrown
         THEN /\ fl' = [fl EXCEPT ![f] = Done(@, "rejected")]
              /\ UNCHANGED <<tr, saved>>
         ELSE LET name == IF Falsy(tr[t].branchName)
                          THEN getBasicBranchName(u, n)
                          ELSE tr[t].branchName
                  state == [fl[f].state EXCEPT !.branch = name]
              IN /\ tr' = [tr EXCEPT ![t].user = u, ![t].branchName = name]
                 /\ saved' = [saved EXCEPT ![n] = state]
                 /\ fl' = [fl EXCEPT ![f] =
                              [Log(@, "resolve") EXCEPT !.state = state,
                                                        !.resolved = name,
                                                        !.pc = "co_exists"]]
    /\ UNCHANGED <<currentIssue, inputBox, HEAD, shownItems, draftPRs, created, calls>>

\* CurrentIssue.branchExists: getBranch answers the branch, or answers
\* nothing or throws, which both count as no
co_exists(f) ==
    /\ fl[f].pc = "co_exists"
    /\ \E ex \in BOOLEAN :
         fl' = [fl EXCEPT ![f].exists = ex, ![f].pc = "co_do"]
    /\ UNCHANGED <<tr, saved, currentIssue, inputBox, HEAD, shownItems, draftPRs, created, calls>>

\* What the catch of the first createOrCheckoutBranch does (lines 129-139).
CatchChoice(branchName, basicBranchName) ==
    IF branchName = basicBranchName THEN "giveUp" ELSE "retry"

\* CurrentIssue.createOrCheckoutBranch: checkout or createBranch, and what
\* createIssueBranch does with the outcome.  A failed second call is not
\* caught.
co_do(f) ==
    LET t == fl[f].self
        name == tr[t].branchName
    IN
    /\ fl[f].pc = "co_do"
    /\ \E ok \in BOOLEAN :
         IF ok
         THEN /\ HEAD' = name
              /\ fl' = [fl EXCEPT ![f] =
                           After([Log(@, "checkout") EXCEPT
                                     !.co = Append(@, <<name, TRUE>>),
                                     !.exists = FALSE],
                                 "createIssueBranch")]
         ELSE /\ UNCHANGED HEAD
              /\ fl' = [fl EXCEPT ![f] =
                           IF Len(fl[f].co) = 0
                           THEN [@ EXCEPT !.co = Append(@, <<name, FALSE>>),
                                          !.exists = FALSE,
                                          !.pc = "cib_catch"]
                           ELSE Done([@ EXCEPT !.co = Append(@, <<name, FALSE>>),
                                               !.exists = FALSE],
                                     "rejected")]
    /\ UNCHANGED <<tr, saved, currentIssue, inputBox, shownItems, draftPRs, created, calls>>

\* lines 128-139: the catch
cib_catch(f) ==
    LET t == fl[f].self
        n == tr[t].issue
    IN
    /\ fl[f].pc = "cib_catch"
    /\ \E u \in getUser(t) :
         IF u = Thrown
         THEN /\ fl' = [fl EXCEPT ![f] = Done(@, "rejected")]
              /\ UNCHANGED <<tr, saved>>
         ELSE LET basicBranchName == getBasicBranchName(u, n) IN
              IF CatchChoice(tr[t].branchName, basicBranchName) = "giveUp"
              THEN /\ tr' = [tr EXCEPT ![t].user = u, ![t].branchName = Undefined]
                   /\ fl' = [fl EXCEPT ![f] =
                                After([@ EXCEPT !.messages = @ + 1],
                                      "createIssueBranch")]
                   /\ UNCHANGED saved
              ELSE LET state == [fl[f].state EXCEPT !.branch = basicBranchName] IN
                   /\ tr' = [tr EXCEPT ![t].user = u,
                                       ![t].branchName = basicBranchName]
                   /\ saved' = [saved EXCEPT ![n] = state]
                   /\ fl' = [fl EXCEPT ![f].state = state,
                                       ![f].messages = @ + 1,
                                       ![f].fellBack = TRUE,
                                       ![f].pc = "co_exists"]
    /\ UNCHANGED <<currentIssue, inputBox, HEAD, shownItems, draftPRs, created, calls>>

\* ------------------------------ CurrentIssue.setCommitMessageAndGitEvent
\* lines 144-145: the configured format is read; with a repository and a
\* string format the substitution is awaited
scm_begin(f) ==
    LET t == fl[f].self IN
    /\ fl[f].pc = "scm_begin"
    /\ \E configuration \in ScmTemplates \cup {NotAString} :
         fl' = [fl EXCEPT ![f] =
                   IF tr[t].repo /\ configuration # NotAString
                   THEN [@ EXCEPT !.pc = "scm_subst"]
                   ELSE After(Log(@, "commit"), "setCommitMessageAndGitEvent")]
    /\ UNCHANGED <<tr, saved, currentIssue, inputBox, HEAD, shownItems, draftPRs, created, calls>>

\* line 146: this.repo.inputBox.value = await variableSubstitution(...)
scm_subst(f) ==
    LET t == fl[f].self
        n == tr[t].issue
    IN
    /\ fl[f].pc = "scm_subst"
    /\ \E configuration \in ScmTemplates :
         inputBox' = variableSubstitution(configuration, n, tr[t].repoDefaults,
                                          Undefined)
    /\ fl' = [fl EXCEPT ![f] =
                 After(Log(@, "commit"), "setCommitMessageAndGitEvent")]
    /\ UNCHANGED <<tr, saved, currentIssue, HEAD, shownItems, draftPRs, created, calls>>

\* ------------------------------------------- CurrentIssue.setStatusBar
\* lines 152-156: a new item is created and shown; an item the tracker held
\* before is no longer referenced, and stays as it was
sb_show(f) ==
    LET t == fl[f].self IN
    /\ fl[f].pc = "sb_show"
    /\ tr' = [tr EXCEPT ![t].statusBarItem = "shown"]
    /\ shownItems' = shownItems + 1
    /\ fl' = [fl EXCEPT ![f] = After(Log(@, "status"), "setStatusBar")]
    /\ UNCHANGED <<saved, currentIssue, inputBox, HEAD, draftPRs, created, calls>>

\* ------------------------------------------- CurrentIssue.createDraftPR
\* createDraftPR without the check of the saved flag.
DraftGuardWithoutFlag(configuration, branchName, hasDraftPR) ==
    configuration /\ ~Falsy(branchName)

\* Whether createDraftPR pushes and opens the draft PR (lines 161-165).
DraftGuard(configuration, branchName, hasDraftPR) ==
    configuration /\ ~Falsy(branchName) /\ ~hasDraftPR

\* lines 160-166: the configuration, the saved state, the call of
\* pushAndCreatePR
cdp_begin(f) ==
    LET t == fl[f].self
        n == tr[t].issue
    IN
    /\ fl[f].pc = "cdp_begin"
    /\ \E configuration \in BOOLEAN :
         LET issueState == saved[n]
             rec == [fl[f] EXCEPT !.draftCfg = configuration]
         IN
         fl' = [fl EXCEPT ![f] =
                   IF DraftGuard(configuration, tr[t].branchName,
                                 issueState.hasDraftPR)
                   THEN [Log(rec, "push") EXCEPT !.state = issueState,
                                                !.pushed = TRUE,
                                                !.pc = "cdp_push"]
                   ELSE After(rec, "createDraftPR")]
    /\ UNCHANGED <<tr, saved, currentIssue, inputBox, HEAD, shownItems, draftPRs, created, calls>>

\* What pushAndCreatePR can end with: succeeded, not succeeded, or thrown.
PushOutcomes == {"true", "false", "throw"}

\* lines 166-170: the flag is persisted when pushAndCreatePR succeeded
cdp_push(f) ==
    LET t == fl[f].self
        n == tr[t].issue
    IN
    /\ fl[f].pc = "cdp_push"
    /\ \E succeeded \in PushOutcomes :
         CASE succeeded = "true" ->
                LET issueState == [fl[f].state EXCEPT !.hasDraftPR = TRUE] IN
                /\ saved' = [saved EXCEPT ![n] = issueState]
                /\ draftPRs' = [draftPRs EXCEPT ![n] = @ + 1]
                /\ fl' = [fl EXCEPT ![f] =
                             After([@ EXCEPT !.state = issueState],
                                   "createDraftPR")]
           [] succeeded = "false" ->
                /\ fl' = [fl EXCEPT ![f] = After(@, "createDraftPR")]
                /\ UNCHANGED <<saved, draftPRs>>
           [] succeeded = "throw" ->
                /\ fl' = [fl EXCEPT ![f] = Done(@, "rejected")]
                /\ UNCHANGED <<saved, draftPRs>>
    /\ UNCHANGED <<tr, currentIssue, inputBox, HEAD, shownItems, created, calls>>

\* ------------------------------ CurrentIssue.dispose and stopWorking
\* A dispose that leaves the status-bar item in the window.
disposeNothing(item) == item

\* dispose (lines 61-63): the status-bar item, if any, is hidden and
\* disposed of.
dispose(item) == IF item = "shown" THEN "disposed" ELSE item

\* Whether stopWorking checks out the base branch (line 70).
StopChecksOut(repoDefaults) == repoDefaults # Undefined

\* What a flow does once stopWorking on its tracker has returned: a direct
\* call ends; setCurrentIssue goes on to replace the current issue.
AfterStop(rec) ==
    IF rec.cmd = "tracker.stopWorking"
    THEN Done(rec, "returned")
    ELSE [rec EXCEPT !.pc = "sci_assign"]

\* lines 67-73 up to the await of the checkout
stop_begin(f) ==
    LET t == fl[f].self IN
    /\ fl[f].pc = "stop_begin"
    /\ inputBox' = IF tr[t].repo THEN "" ELSE inputBox
    /\ IF StopChecksOut(tr[t].repoDefaults)
       THEN /\ fl' = [fl EXCEPT ![f].pc = "stop_checkout"]
            /\ UNCHANGED <<tr, shownItems>>
       ELSE /\ tr' = [tr EXCEPT ![t].statusBarItem = dispose(@),
                                ![t].stopped = TRUE]
            /\ shownItems' = IF dispose(tr[t].statusBarItem) # tr[t].statusBarItem
                             THEN shownItems - 1 ELSE shownItems
            /\ fl' = [fl EXCEPT ![f] = AfterStop(@)]
    /\ UNCHANGED <<saved, currentIssue, HEAD, draftPRs, created, calls>>

\* lines 71-73: await checkout(this.repoDefaults.base), then dispose; a
\* failed checkout is not caught
stop_checkout(f) ==
    LET t == fl[f].self
        base == tr[t].repoDefaults
    IN
    /\ fl[f].pc = "stop_checkout"
    /\ \E ok \in BOOLEAN :
         IF ok
         THEN /\ HEAD' = base
              /\ tr' = [tr EXCEPT ![t].statusBarItem = dispose(@),
                                  ![t].stopped = TRUE]
              /\ shownItems' = IF dispose(tr[t].statusBarItem) # tr[t].statusBarItem
                               THEN shownItems - 1 ELSE shownItems
              /\ fl' = [fl EXCEPT ![f] =
                           AfterStop([@ EXCEPT !.checkouts = @ + 1])]
         ELSE /\ fl' = [fl EXCEPT ![f] =
                           Done([@ EXCEPT !.checkouts = @ + 1], "rejected")]
              /\ UNCHANGED <<HEAD, tr, shownItems>>
    /\ UNCHANGED <<saved, currentIssue, inputBox, draftPRs, created, calls>>

\* A flow enters stopWorking on tracker t.
EnterStop(rec, t) ==
    [rec EXCEPT !.pc = "stop_begin", !.self = t, !.checkouts = 0,
                !.entryBox = inputBox, !.selfStarted = tr[t].started,
                !.selfStopped = tr[t].stopped,
                !.selfDefaults = tr[t].repoDefaults]

\* ------------------------------------------- the CurrentIssue constructor
\* The issue's remote, and fetch URLs holding its owner/repository name.
IssueRemoteName == "origin"
MatchingUrls == {"https://github.com/owner/repo.git"}

\* String.search of the owner/repo pattern in a fetch URL (line 31); a
\* remote without a fetch URL gives undefined, which is not -1.
SearchMisses(fetchUrl) == fetchUrl # Undefined /\ fetchUrl \notin MatchingUrls

\* The repository lists gitAPI.repositories holds when a command of the
\* registrar constructs a tracker: no repository, or the issue's one.  Each
\* repository is the sequence of its remotes.
WorkspaceLists ==
    { <<>>,
      << <<[name |-> "origin", fetchUrl |-> "https://github.com/owner/repo.git"]>> >> }

\* The repository lists a tracker can be constructed over: also a
\* repository whose remote of the issue's name points elsewhere, and one
\* whose remote has no fetch URL.
RepositoryLists ==
    WorkspaceLists \cup
    { << <<[name |-> "upstream", fetchUrl |-> "https://github.com/owner/repo.git"],
           [name |-> "origin", fetchUrl |-> "https://github.com/fork/other.git"]>> >>,
      << <<[name |-> "origin", fetchUrl |-> Undefined]>> >> }

\* setRepo (lines 25-37): whether some repository has a remote of the issue's
\* remote name whose fetch URL does not miss the pattern.
setRepo(repositories) ==
    \E i \in 1..Len(repositories) :
        \E j \in 1..Len(repositories[i]) :
            /\ repositories[i][j].name = IssueRemoteName
            /\ ~SearchMisses(repositories[i][j].fetchUrl)

\* new CurrentIssue(issueModel, ..., shouldPromptForBranch) (lines 21-23)
Construct(n, prompt, repositories) ==
    [NoTracker EXCEPT !.made = TRUE, !.issue = n,
                      !.shouldPromptForBranch = prompt,
                      !.repo = setRepo(repositories)]

\* The trackers something still refers to: the current issue, and those the
\* other flows are working on.  The rest are garbage.
Kept(f) ==
    {currentIssue}
        \cup {fl[g].self : g \in {h \in Flows \ {f} : fl[h].pc \notin {"idle", "done"}}}
        \cup {fl[g].pending : g \in {h \in Flows \ {f} : fl[h].pc \notin {"idle", "done"}}}

\* Trackers are numbered as they are constructed.
HasFree(f) == \E t \in Trackers : ~tr[t].made

Free(f) == CHOOSE t \in Trackers : ~tr[t].made /\ \A s \in 1..(t - 1) : tr[s].made

\* A tracker nothing refers to any more: what it held no longer matters.
Dropped == [NoTracker EXCEPT !.made = TRUE]

Collect(trs, keep) ==
    [t \in Trackers |-> IF t \in keep \/ ~trs[t].made THEN trs[t] ELSE Dropped]

\* The trackers with `new` constructed.
WithNew(f, new) == [Collect(tr, Kept(f)) EXCEPT ![Free(f)] = new]

BeginRec(cmd) ==
    [IdleFlow EXCEPT !.cmd = cmd]

\* --------------------------------------------- StateManager.setCurrentIssue
\* The current issue, if any, is stopped first; then the new one, if any,
\* becomes current and is started.
sci_begin(f) ==
    /\ fl[f].pc = "sci_begin"
    /\ fl' = [fl EXCEPT ![f] =
                 IF currentIssue # 0
                 THEN EnterStop(@, currentIssue)
                 ELSE [@ EXCEPT !.pc = "sci_assign"]]
    /\ UNCHANGED <<tr, saved, currentIssue, inputBox, HEAD, shownItems, draftPRs, created, calls>>

sci_assign(f) ==
    LET new == fl[f].pending IN
    /\ fl[f].pc = "sci_assign"
    /\ currentIssue' = new
    /\ tr' = [t \in Trackers |->
                 IF t = new THEN [tr[t] EXCEPT !.started = TRUE]
                 ELSE IF t \in Kept(f) \ {currentIssue} \/ ~tr[t].made THEN tr[t]
                 ELSE Dropped]
    /\ fl' = [fl EXCEPT ![f] =
                 IF new # 0 THEN EnterStart(@, new) ELSE Done(@, "returned")]
    /\ UNCHANGED <<saved, inputBox, HEAD, shownItems, draftPRs, created, calls>>

\* ------------------------------------------------- the registrar's commands
\* What a command can be handed: an IssueModel, an {owner, repo, number}
\* reference, or something else.
CommandArgs ==
    [kind : {"model", "ref"}, number : Issues] \cup {[kind |-> "other", number |-> 0]}

\* IssueFeatureRegistrar.startWorking, the handler of issue.startWorking and
\* of issue.continueWorking
RegStartWorking(f) ==
    /\ fl[f].pc \in {"idle", "done"}
    /\ HasFree(f)
    /\ \E a \in CommandArgs :
         CASE a.kind = "model" ->
                \E repositories \in WorkspaceLists :
                    /\ tr' = WithNew(f, Construct(a.number, FALSE, repositories))
                    /\ fl' = [fl EXCEPT ![f] =
                                 [BeginRec("startWorking") EXCEPT
                                     !.pending = Free(f), !.pc = "sci_begin"]]
           [] a.kind = "ref" ->
                /\ fl' = [fl EXCEPT ![f] =
                             [BeginRec("startWorking") EXCEPT
                                 !.arg = a.number, !.pc = "reg_resolve"]]
                /\ UNCHANGED tr
           [] a.kind = "other" ->
                /\ fl' = [fl EXCEPT ![f] = Done(BeginRec("startWorking"), "returned")]
                /\ UNCHANGED tr
    /\ UNCHANGED <<saved, currentIssue, inputBox, HEAD, shownItems, draftPRs, created, calls>>

\* line 304: await this.manager.resolveIssue(owner, repo, number), which
\* answers the issue or undefined
reg_resolve(f) ==
    /\ fl[f].pc = "reg_resolve"
    /\ HasFree(f)
    /\ \E issueModel \in {fl[f].arg, 0}, repositories \in WorkspaceLists :
         IF issueModel # 0
         THEN /\ tr' = WithNew(f, Construct(issueModel, FALSE, repositories))
              /\ fl' = [fl EXCEPT ![f].pending = Free(f), ![f].pc = "sci_begin"]
         ELSE /\ fl' = [fl EXCEPT ![f] = Done(@, "returned")]
              /\ UNCHANGED tr
    /\ UNCHANGED <<saved, currentIssue, inputBox, HEAD, shownItems, draftPRs, created, calls>>

\* IssueFeatureRegistrar.startWorkingBranchPrompt
RegStartWorkingBranchPrompt(f) ==
    /\ fl[f].pc \in {"idle", "done"}
    /\ HasFree(f)
    /\ \E a \in CommandArgs :
         IF a.kind = "model"
         THEN \E repositories \in WorkspaceLists :
                /\ tr' = WithNew(f, Construct(a.number, TRUE, repositories))
                /\ fl' = [fl EXCEPT ![f] =
                             [BeginRec("startWorkingBranchPrompt") EXCEPT
                                 !.pending = Free(f), !.pc = "sci_begin"]]
         ELSE /\ fl' = [fl EXCEPT ![f] =
                           Done(BeginRec("startWorkingBranchPrompt"), "returned")]
              /\ UNCHANGED tr
    /\ UNCHANGED <<saved, currentIssue, inputBox, HEAD, shownItems, draftPRs, created, calls>>

\* Whether the registrar's stopWorking acts (line 319).
StopApplies(a) ==
    /\ a.kind = "model"
    /\ currentIssue # 0
    /\ tr[currentIssue].issue = a.number

\* IssueFeatureRegistrar.stopWorking
RegStopWorking(f) ==
    /\ fl[f].pc \in {"idle", "done"}
    /\ \E a \in CommandArgs :
         fl' = [fl EXCEPT ![f] =
                   IF StopApplies(a)
                   THEN [BeginRec("stopWorking") EXCEPT !.arg = a.number,
                                                        !.pc = "sci_begin"]
                   ELSE Done([BeginRec("stopWorking") EXCEPT !.arg = a.number],
                             "returned")]
    /\ UNCHANGED <<tr, saved, currentIssue, inputBox, HEAD, shownItems, draftPRs, created, calls>>

\* ------------------------------------- IssueFeatureRegistrar.statusBar
\* A menu that offers the apply-patch action for any branch name.
OffersPatchWithoutDefaults(branchName, defaults) == ~Falsy(branchName)

\* Whether the menu offers the apply-patch action (line 337).
OffersPatch(branchName, defaults) == ~Falsy(branchName) /\ defaults # Undefined

MenuChoices(offersPatch) ==
    {"openIssue", "pullRequest", "draftPullRequest", "stopWorking"}
        \cup (IF offersPatch THEN {"applyPatch"} ELSE {})

\* line 325: without a current issue the command does nothing; with one the
\* PR defaults are fetched
RegStatusBar(f) ==
    /\ fl[f].pc \in {"idle", "done"}
    /\ fl' = [fl EXCEPT ![f] =
                 IF currentIssue # 0
                 THEN [BeginRec("statusBar") EXCEPT !.pc = "sbm_defaults"]
                 ELSE Done(BeginRec("statusBar"), "returned")]
    /\ UNCHANGED <<tr, saved, currentIssue, inputBox, HEAD, shownItems, draftPRs, created, calls>>

\* lines 330-338: the defaults or their absence, the choices, the quick pick
sbm_defaults(f) ==
    /\ fl[f].pc = "sbm_defaults"
    /\ \E defaults \in {DefaultsBase, Undefined} :
         fl' = [fl EXCEPT ![f] =
                   IF currentIssue = 0
                   THEN Done(@, "rejected")
                   ELSE [@ EXCEPT !.defaults = defaults,
                                  !.offersPatch =
                                      OffersPatch(tr[currentIssue].branchName, defaults),
                                  !.pc = "sbm_pick"]]
    /\ UNCHANGED <<tr, saved, currentIssue, inputBox, HEAD, shownItems, draftPRs, created, calls>>

\* lines 339-345: the response is dispatched
sbm_pick(f) ==
    /\ fl[f].pc = "sbm_pick"
    /\ \E response \in MenuChoices(fl[f].offersPatch) \cup {Undefined} :
         fl' = [fl EXCEPT ![f] =
                   CASE response = "openIssue" ->
                          Done(@, IF currentIssue = 0 THEN "rejected" ELSE "returned")
                     [] response \in {"pullRequest", "draftPullRequest"} ->
                          [@ EXCEPT !.pc = "sbm_push"]
                     [] response = "applyPatch" ->
                          IF currentIssue = 0
                          THEN Done(@, "rejected")
                          ELSE [@ EXCEPT !.pc = "ap_prepare"]
                     [] response = "stopWorking" ->
                          [@ EXCEPT !.pending = 0, !.pc = "sci_begin"]
                     [] response = Undefined ->
                          Done(@, "returned")]
    /\ UNCHANGED <<tr, saved, currentIssue, inputBox, HEAD, shownItems, draftPRs, created, calls>>

\* lines 341-342: return pushAndCreatePR(...)
sbm_push(f) ==
    /\ fl[f].pc = "sbm_push"
    /\ \E succeeded \in PushOutcomes :
         fl' = [fl EXCEPT ![f] =
                   Done(@, IF succeeded = "throw" THEN "rejected" ELSE "returned")]
    /\ UNCHANGED <<tr, saved, currentIssue, inputBox, HEAD, shownItems, draftPRs, created, calls>>

\* ------------------------------------- IssueFeatureRegistrar.applyPatch
\* The base branch applyPatch is called with (line 343).
baseBranch(defaults) == IF defaults # Undefined THEN defaults ELSE ""

PatchMessage == "merge-base message"

\* lines 357-373: the base branch, the merge base, its message, the diff and
\* the patch file; a missing base or commit, or any failure, ends the
\* command with a message
ap_prepare(f) ==
    /\ fl[f].pc = "ap_prepare"
    /\ \E got \in {"ready", "noBase", "throw"} :
         fl' = [fl EXCEPT ![f] =
                   IF got = "ready"
                   THEN [@ EXCEPT !.pc = "ap_checkout"]
                   ELSE Done([@ EXCEPT !.messages = @ + 1], "returned")]
    /\ UNCHANGED <<tr, saved, currentIssue, inputBox, HEAD, shownItems, draftPRs, created, calls>>

\* line 375: await checkout(baseBranch)
ap_checkout(f) ==
    /\ fl[f].pc = "ap_checkout"
    /\ \E ok \in BOOLEAN :
         IF ok
         THEN /\ HEAD' = baseBranch(fl[f].defaults)
              /\ fl' = [fl EXCEPT ![f].pc = "ap_apply"]
         ELSE /\ fl' = [fl EXCEPT ![f] =
                           Done([@ EXCEPT !.messages = @ + 1], "returned")]
              /\ UNCHANGED HEAD
    /\ UNCHANGED <<tr, saved, currentIssue, inputBox, shownItems, draftPRs, created, calls>>

\* lines 376-378: pull, apply, and the merge base's message in the
\* commit-message box
ap_apply(f) ==
    /\ fl[f].pc = "ap_apply"
    /\ \E ok \in BOOLEAN :
         IF ok
         THEN /\ inputBox' = PatchMessage
              /\ fl' = [fl EXCEPT ![f] = Done(@, "returned")]
         ELSE /\ fl' = [fl EXCEPT ![f] =
                           Done([@ EXCEPT !.messages = @ + 1], "returned")]
              /\ UNCHANGED inputBox
    /\ UNCHANGED <<tr, saved, currentIssue, HEAD, shownItems, draftPRs, created, calls>>

\* ---------------------------------------------------- the specifications
TrackerStep(f) ==
    \/ sw_defaults(f)
    \/ cib_begin(f)
    \/ cib_template(f)
    \/ cib_input(f)
    \/ cib_basic(f)
    \/ co_exists(f)
    \/ co_do(f)
    \/ cib_catch(f)
    \/ scm_begin(f)
    \/ scm_subst(f)
    \/ sb_show(f)
    \/ cdp_begin(f)
    \/ cdp_push(f)
    \/ stop_begin(f)
    \/ stop_checkout(f)

RegistrarStep(f) ==
    \/ sci_begin(f)
    \/ sci_assign(f)
    \/ reg_resolve(f)
    \/ sbm_defaults(f)
    \/ sbm_pick(f)
    \/ sbm_push(f)
    \/ ap_prepare(f)
    \/ ap_checkout(f)
    \/ ap_apply(f)

RegistrarCommand(f) ==
    \/ RegStartWorking(f)
    \/ RegStartWorkingBranchPrompt(f)
    \/ RegStopWorking(f)
    \/ RegStatusBar(f)

\* The registrar's working commands, each run to its end before the next
\* is invoked.
Next ==
    \/ Quiet /\ RegistrarCommand(1)
    \/ TrackerStep(1)
    \/ RegistrarStep(1)

Spec == Init /\ [][Next]_vars

\* --------------------------------------- the tracker's methods, called directly
\* The tracker slot the methods are called on, and the issues such a
\* tracker is constructed for.
Direct == CHOOSE t \in Trackers : \A s \in Trackers : t <= s
DirectIssues == {CHOOSE n \in Issues : \A m \in Issues : n <= m}

\* A tracker is constructed and not handed to anything; the one constructed
\* before it is no longer referred to.
TrackerNew ==
    /\ \E n \in DirectIssues, prompt \in BOOLEAN, repositories \in RepositoryLists :
         tr' = [tr EXCEPT ![Direct] = Construct(n, prompt, repositories)]
    /\ UNCHANGED <<fl, saved, currentIssue, inputBox, HEAD, shownItems,
                   draftPRs, created, calls>>

\* The run before this one in the flow, when it was a startWorking without
\* the prompt flag, with branch creation not off, that found a saved branch:
\* its issue and that branch.
PrevRun(rec) ==
    IF /\ rec.cmd = "tracker.startWorking"
       /\ ~rec.runPrompt
       /\ rec.createBranchConfig \in {"on", "prompt"}
       /\ ~Falsy(rec.entryBranch)
    THEN [issue |-> rec.runIssue, entry |-> rec.entryBranch, fell |-> rec.fellBack]
    ELSE [issue |-> 0, entry |-> Undefined, fell |-> FALSE]

\* tracker.startWorking()
TrackerStartWorking(f) ==
    /\ fl[f].pc \in {"idle", "done"}
    /\ calls < MaxCalls
    /\ calls' = calls + 1
    /\ \E t \in {Direct} :
         /\ tr[t].made
         /\ tr' = [tr EXCEPT ![t].started = TRUE]
         /\ fl' = [fl EXCEPT ![f] =
                      EnterStart([BeginRec("tracker.startWorking") EXCEPT
                                     !.prevIssue = PrevRun(fl[f]).issue,
                                     !.prevEntry = PrevRun(fl[f]).entry,
                                     !.prevFell = PrevRun(fl[f]).fell], t)]
    /\ UNCHANGED <<saved, currentIssue, inputBox, HEAD, shownItems, draftPRs,
                   created>>

\* tracker.stopWorking()
TrackerStopWorking(f) ==
    /\ fl[f].pc \in {"idle", "done"}
    /\ calls < MaxCalls
    /\ calls' = calls + 1
    /\ \E t \in {Direct} :
         /\ tr[t].made
         /\ fl' = [fl EXCEPT ![f] = EnterStop(BeginRec("tracker.stopWorking"), t)]
    /\ UNCHANGED <<tr, saved, currentIssue, inputBox, HEAD, shownItems,
                   draftPRs, created>>

\* The user types into the commit-message box.
TypeCommitMessage ==
    /\ inputBox # TypedText
    /\ inputBox' = TypedText
    /\ UNCHANGED <<tr, fl, saved, currentIssue, HEAD, shownItems, draftPRs,
                   created, calls>>

NextTracker ==
    \/ Quiet /\ TrackerNew
    \/ Quiet /\ TrackerStartWorking(1)
    \/ Quiet /\ TrackerStopWorking(1)
    \/ Quiet /\ TypeCommitMessage
    \/ TrackerStep(1)

\* The tracker's public methods called one after another on trackers that
\* were constructed, in any order.
SpecTracker == Init /\ [][NextTracker]_vars

\* ------------------------------------------- the issue-creation workflow
\* No command or handler of the workflow is running.
CreateQuiet == created.pc \in {"idle", "done"}

\* A command or handler of the workflow begins: what it has done starts
\* empty.
BeginCreate(cmd) ==
    [created EXCEPT !.cmd = cmd, !.outcome = "none", !.originFailed = FALSE,
                    !.ops = @ + 1, !.apiCalls = 0, !.edits = 0, !.urls = 0,
                    !.refreshes = 0, !.messages = 0]

EndCreate(rec, outcome) == [rec EXCEPT !.pc = "done", !.outcome = outcome]

\* IssueFeatureRegistrar.createIssue up to its await
RegCreateIssue ==
    /\ CreateQuiet /\ created.ops < MaxCreated
    /\ created' = [BeginCreate("createIssue") EXCEPT !.pc = "ci_defaults"]
    /\ UNCHANGED <<tr, fl, saved, currentIssue, inputBox, HEAD, shownItems,
                   draftPRs, calls>>

\* What createIssue does once the fetch of the defaults has ended (lines
\* 215-220): the URL is opened, or the message is shown.
AfterCreateIssueFetch(rec, ok) ==
    IF ok
    THEN [rec EXCEPT !.urls = @ + 1]
    ELSE [rec EXCEPT !.originFailed = TRUE, !.messages = @ + 1]

\* lines 216-219; the promise of openExternal is returned, not awaited, so
\* its rejection is not caught
ci_defaults ==
    /\ created.pc = "ci_defaults"
    /\ \E ok \in BOOLEAN, opened \in BOOLEAN :
         /\ ~ok => opened
         /\ created' = EndCreate(AfterCreateIssueFetch(created, ok),
                                 IF opened THEN "returned" ELSE "rejected")
    /\ UNCHANGED <<tr, fl, saved, currentIssue, inputBox, HEAD, shownItems,
                   draftPRs, calls>>

\* The users of StateManager.userMap.
UserMap == {TheUser}

\* The issue-generation text, word by word: a word is plain or is "@" and
\* a user name.
Word(w) == [at |-> FALSE, word |-> w]
Mention(u) == [at |-> TRUE, word |-> u]
GenerationTexts ==
    { <<Word("TODO")>>,
      <<Word("TODO"), Mention(TheUser)>>,
      <<Mention("x"), Word("TODO")>>,
      <<Mention(TheUser), Mention("x")>>,
      <<Mention("x"), Mention(TheUser)>> }

\* Where the text has a mention, and the user names it mentions.
MentionsAt(text) == {i \in 1..Len(text) : text[i].at}
MentionedUsers(text) == {text[i].word : i \in MentionsAt(text)}

\* String.match(USER_EXPRESSION): null, here << >>, or the match and its
\* group, the user name.  The expression matches a text with one mention.
matchUserExpression(text) ==
    IF Cardinality(MentionsAt(text)) = 1
    THEN LET user == CHOOSE u \in MentionedUsers(text) : TRUE
         IN  <<"@" \o user, user>>
    ELSE <<>>

\* An assignee taken from the match whether or not userMap has the user.
assigneeOfAnyUser(matches, userMap) ==
    IF matches # <<>> /\ Len(matches) = 2 THEN matches[2] ELSE Undefined

\* lines 419-422: the assignee is the group of the match when userMap has
\* it (matches[1] of the code is matches[2] here, sequences start at 1)
assigneeOf(matches, userMap) ==
    IF matches # <<>> /\ Len(matches) = 2 /\ matches[2] \in userMap
    THEN matches[2]
    ELSE Undefined

\* createTodoIssue, lines 400-423 up to the await of the permalink: with
\* neither a NewIssue nor an active editor it returns; the assignee is the
\* mentioned user when userMap has it.
RegCreateTodoIssue ==
    /\ CreateQuiet /\ created.ops < MaxCreated
    /\ \E newIssue \in BOOLEAN, activeTextEditor \in BOOLEAN,
          issueGenerationText \in GenerationTexts, hasBody \in BOOLEAN :
         LET rec == BeginCreate("createTodoIssue")
             assignee == assigneeOf(matchUserExpression(issueGenerationText),
                                    UserMap)
         IN  created' =
               IF ~newIssue /\ ~activeTextEditor
               THEN EndCreate(rec, "returned")
               ELSE [rec EXCEPT !.quick = [fromLine |-> newIssue,
                                           assignee |-> assignee,
                                           text |-> issueGenerationText],
                                !.pc = IF hasBody THEN "cti_show"
                                       ELSE "cti_permalink"]
    /\ UNCHANGED <<tr, fl, saved, currentIssue, inputBox, HEAD, shownItems,
                   draftPRs, calls>>

\* line 423: await createGithubPermalink(...)
cti_permalink ==
    /\ created.pc = "cti_permalink"
    /\ \E ok \in BOOLEAN :
         created' = IF ok THEN [created EXCEPT !.pc = "cti_show"]
                    ELSE EndCreate(created, "rejected")
    /\ UNCHANGED <<tr, fl, saved, currentIssue, inputBox, HEAD, shownItems,
                   draftPRs, calls>>

\* lines 425-461: the quick input is created, its handlers are registered
\* and it is shown
cti_show ==
    /\ created.pc = "cti_show"
    /\ created' = EndCreate([created EXCEPT !.quickInput = "shown"], "returned")
    /\ UNCHANGED <<tr, fl, saved, currentIssue, inputBox, HEAD, shownItems,
                   draftPRs, calls>>

\* doCreateIssue is called with the handler's or the draft's values.
EnterDoCreate(rec, args) == [rec EXCEPT !.args = args, !.pc = "dci_defaults"]

\* What the caller of doCreateIssue does when it has returned: onDidAccept
\* hides the quick input (lines 444-446); createIssueFromFile forgets the
\* draft and closes the editor (lines 252-253).
AfterDoCreate(rec) ==
    IF rec.cmd = "onDidAccept"
    THEN EndCreate([rec EXCEPT !.quickInput = "hidden"], "returned")
    ELSE EndCreate([rec EXCEPT !.info = NoInfo, !.draftOpen = FALSE], "returned")

\* A doCreateIssue that shows the message and goes on to create the issue.
AfterOriginFetchGoesOn(rec, ok) ==
    IF ok
    THEN [rec EXCEPT !.pc = "dci_create"]
    ELSE [rec EXCEPT !.originFailed = TRUE, !.messages = @ + 1,
                     !.pc = "dci_create"]

\* What doCreateIssue does once the fetch of the defaults has ended (lines
\* 465-472): it goes on to create the issue, or shows the message and
\* returns.
AfterOriginFetch(rec, ok) ==
    IF ok
    THEN [rec EXCEPT !.pc = "dci_create"]
    ELSE AfterDoCreate([rec EXCEPT !.originFailed = TRUE, !.messages = @ + 1])

\* lines 466-472: await this.manager.getPullRequestDefaults() and its catch
dci_defaults ==
    /\ created.pc = "dci_defaults"
    /\ \E ok \in BOOLEAN : created' = AfterOriginFetch(created, ok)
    /\ UNCHANGED <<tr, fl, saved, currentIssue, inputBox, HEAD, shownItems,
                   draftPRs, calls>>

\* Where the reference to the new issue goes (line 482).
InsertsReference(args) == args.fromLine

\* lines 473-480: the permalink, if the body needs one, and
\* await this.manager.createIssue(...); neither is in a try
dci_create ==
    /\ created.pc = "dci_create"
    /\ \E permalink \in BOOLEAN, issue \in {"issue", Undefined, Thrown} :
         created' =
           IF ~permalink THEN EndCreate(created, "rejected")
           ELSE LET rec == [created EXCEPT !.apiCalls = @ + 1] IN
                CASE issue = Thrown -> EndCreate(rec, "rejected")
                  [] issue = Undefined -> AfterDoCreate(rec)
                  [] OTHER -> [rec EXCEPT !.pc = "dci_insert"]
    /\ UNCHANGED <<tr, fl, saved, currentIssue, inputBox, HEAD, shownItems,
                   draftPRs, calls>>

\* lines 481-490: await applyEdit(...) or await openExternal(...), then
\* refreshCacheNeeded()
dci_insert ==
    /\ created.pc = "dci_insert"
    /\ \E ok \in BOOLEAN :
         LET rec == IF InsertsReference(created.args)
                    THEN [created EXCEPT !.edits = @ + 1]
                    ELSE [created EXCEPT !.urls = @ + 1]
         IN  created' =
               IF ok THEN AfterDoCreate([rec EXCEPT !.refreshes = @ + 1])
               ELSE EndCreate(rec, "rejected")
    /\ UNCHANGED <<tr, fl, saved, currentIssue, inputBox, HEAD, shownItems,
                   draftPRs, calls>>

\* What the title input of the quick input can hold.
Titles == {"", "title"}

\* quickInput.onDidAccept (lines 439-447)
onDidAccept ==
    /\ CreateQuiet /\ created.quickInput = "shown"
    /\ \E title \in Titles :
         LET rec == [created EXCEPT !.cmd = "onDidAccept", !.outcome = "none",
                                    !.originFailed = FALSE, !.apiCalls = 0,
                                    !.edits = 0, !.urls = 0, !.refreshes = 0,
                                    !.messages = 0]
         IN  created' =
               IF title = ""
               THEN EndCreate([rec EXCEPT !.quickInput = "hidden"], "returned")
               ELSE EnterDoCreate([rec EXCEPT !.quickInput = "busy"], created.quick)
    /\ UNCHANGED <<tr, fl, saved, currentIssue, inputBox, HEAD, shownItems,
                   draftPRs, calls>>

\* quickInput.onDidTriggerButton (lines 448-455): createIssueInfo is set
\* before the scratch document is written
onDidTriggerButton ==
    /\ CreateQuiet /\ created.quickInput = "shown"
    /\ created' = [created EXCEPT !.cmd = "onDidTriggerButton",
                                  !.outcome = "none", !.originFailed = FALSE,
                                  !.apiCalls = 0, !.edits = 0, !.urls = 0,
                                  !.refreshes = 0, !.messages = 0,
                                  !.quickInput = "busy",
                                  !.info = [set |-> TRUE,
                                            fromLine |-> created.quick.fromLine,
                                            assignee |-> created.quick.assignee,
                                            text |-> created.quick.text],
                                  !.pc = "btn_write"]
    /\ UNCHANGED <<tr, fl, saved, currentIssue, inputBox, HEAD, shownItems,
                   draftPRs, calls>>

\* lines 456-459: await writeFile(...), await showTextDocument(...), hide
btn_write ==
    /\ created.pc = "btn_write"
    /\ \E ok \in BOOLEAN :
         created' =
           IF ok
           THEN EndCreate([created EXCEPT !.draftOpen = TRUE,
                                          !.quickInput = "hidden"], "returned")
           ELSE EndCreate(created, "rejected")
    /\ UNCHANGED <<tr, fl, saved, currentIssue, inputBox, HEAD, shownItems,
                   draftPRs, calls>>

\* What the active editor's document can hold, character by character: "T"
\* and "B" stand for a character of the title and of the body.
Texts ==
    { <<"T", "\n", "\n", "B">>,
      <<"T", "\r", "\n", "\r", "\n", "B">>,
      <<"T", "\n", "B">>,
      <<"\n", "\n", "B">>,
      <<"T", "\n", "\n">> }

\* String.indexOf: the index, from 0, of the first occurrence, or -1.
indexOf(text, pattern) ==
    LET at == {i \in 0..(Len(text) - Len(pattern)) :
                  SubSeq(text, i + 1, i + Len(pattern)) = pattern}
    IN  IF at = {} THEN -1
        ELSE CHOOSE i \in at : \A j \in at : i <= j

\* String.substring(from) and String.substring(0, to)
substringFrom(text, from) ==
    IF from >= Len(text) THEN <<>> ELSE SubSeq(text, from + 1, Len(text))
substringTo(text, to) == SubSeq(text, 1, to)

\* lines 232-246: the index of the first empty line, or -1
indexOfEmptyLine(text) ==
    LET indexOfEmptyLineWindows == indexOf(text, <<"\r", "\n", "\r", "\n">>)
        indexOfEmptyLineOther == indexOf(text, <<"\n", "\n">>)
    IN  IF indexOfEmptyLineWindows < 0 /\ indexOfEmptyLineOther < 0 THEN -1
        ELSE IF indexOfEmptyLineWindows < 0 THEN indexOfEmptyLineOther
        ELSE IF indexOfEmptyLineOther < 0 THEN indexOfEmptyLineWindows
        ELSE IF indexOfEmptyLineWindows < indexOfEmptyLineOther
             THEN indexOfEmptyLineWindows
             ELSE indexOfEmptyLineOther

\* Whether createIssueFromFile gets as far as doCreateIssue (lines 224-250).
HasTitleAndBody(text) ==
    /\ indexOfEmptyLine(text) >= 0
    /\ substringTo(text, indexOfEmptyLine(text)) # <<>>
    /\ substringFrom(text, indexOfEmptyLine(text) + 2) # <<>>

\* IssueFeatureRegistrar.createIssueFromFile up to the await of
\* doCreateIssue
RegCreateIssueFromFile ==
    /\ CreateQuiet /\ created.ops < MaxCreated
    /\ \E activeTextEditor \in BOOLEAN, text \in Texts :
         LET rec == BeginCreate("createIssueFromFile") IN
         created' =
           IF ~created.info.set \/ ~activeTextEditor \/ ~HasTitleAndBody(text)
           THEN EndCreate(rec, "returned")
           ELSE EnterDoCreate(rec, [fromLine |-> created.info.fromLine,
                                    assignee |-> created.info.assignee,
                                    text |-> created.info.text])
    /\ UNCHANGED <<tr, fl, saved, currentIssue, inputBox, HEAD, shownItems,
                   draftPRs, calls>>

\* The user closes the scratch document that line 457 has shown; the
\* registrar has no handler for it, createIssueInfo stays as it is.
closeDraft ==
    /\ CreateQuiet /\ created.draftOpen
    /\ created' = [created EXCEPT !.draftOpen = FALSE]
    /\ UNCHANGED <<tr, fl, saved, currentIssue, inputBox, HEAD, shownItems,
                   draftPRs, calls>>

CreateCommand ==
    \/ RegCreateIssue
    \/ RegCreateTodoIssue
    \/ RegCreateIssueFromFile
    \/ onDidAccept
    \/ onDidTriggerButton
    \/ closeDraft

CreateStep ==
    \/ ci_defaults
    \/ cti_permalink
    \/ cti_show
    \/ dci_defaults
    \/ dci_create
    \/ dci_insert
    \/ btn_write

NextCreate == CreateCommand \/ CreateStep

\* The issue-creation commands and the quick input's handlers, each run to
\* its end before the next is invoked.
SpecCreate == Init /\ [][NextCreate]_vars


\* ------------------------------- two startWorking flows on the event loop
\* The tracker of a flow: each flow constructs its own.
OwnTracker(f) == f

\* new CurrentIssue(...) for the issue both flows work on
RaceNew(f) ==
    /\ fl[f].pc = "idle" /\ ~tr[OwnTracker(f)].made
    /\ \E n \in DirectIssues, prompt \in BOOLEAN, repositories \in WorkspaceLists :
         tr' = [tr EXCEPT ![OwnTracker(f)] = Construct(n, prompt, repositories)]
    /\ UNCHANGED <<fl, saved, currentIssue, inputBox, HEAD, shownItems,
                   draftPRs, created, calls>>

\* tracker.startWorking() on the flow's tracker, up to its first await
RaceStartWorking(f) ==
    /\ fl[f].pc = "idle" /\ tr[OwnTracker(f)].made
    /\ tr' = [tr EXCEPT ![OwnTracker(f)].started = TRUE]
    /\ fl' = [fl EXCEPT ![f] =
                 EnterStart(BeginRec("tracker.startWorking"), OwnTracker(f))]
    /\ UNCHANGED <<saved, currentIssue, inputBox, HEAD, shownItems, draftPRs,
                   created, calls>>

\* A flow runs from one await to the next while no other flow is in the
\* middle of synchronous code.
NextRace ==
    \E f \in Flows :
        \/ Runnable(f) /\ RaceNew(f)
        \/ Runnable(f) /\ RaceStartWorking(f)
        \/ Runnable(f) /\ sw_defaults(f)
        \/ Runnable(f) /\ cib_begin(f)
        \/ Runnable(f) /\ cib_template(f)
        \/ Runnable(f) /\ cib_input(f)
        \/ Runnable(f) /\ cib_basic(f)
        \/ Runnable(f) /\ co_exists(f)
        \/ Runnable(f) /\ co_do(f)
        \/ Runnable(f) /\ cib_catch(f)
        \/ Runnable(f) /\ scm_begin(f)
        \/ Runnable(f) /\ scm_subst(f)
        \/ Runnable(f) /\ sb_show(f)
        \/ Runnable(f) /\ cdp_begin(f)
        \/ Runnable(f) /\ cdp_push(f)

\* Two trackers for the same issue are started once each; at every await
\* of one flow the other may run.
SpecRace == Init /\ [][NextRace]_vars

\* ================================================================ claims

\* C1: draft-PR creation by startWorking fires at most once per issue: when
\* the flag hasDraftPR of an issue is persisted as true, it stays true, no
\* run of startWorking on that issue calls pushAndCreatePR and no further
\* draft PR is opened; the flag is set only by a call that succeeded; a call
\* that did not succeed leaves it unset; and a run that finds it unset, with
\* alwaysCreateDraftPR enabled and a branch established, calls pushAndCreatePR.
C1Step ==
    \A n \in Issues :
        /\ draftPRs'[n] <= 1
        /\ saved[n].hasDraftPR =>
              /\ saved'[n].hasDraftPR
              /\ draftPRs'[n] = draftPRs[n]
              /\ \A f \in Flows :
                    (fl'[f].runIssue = n /\ fl'[f].pushed)
                        => (fl[f].runIssue = n /\ fl[f].pushed)
        /\ (~saved[n].hasDraftPR /\ saved'[n].hasDraftPR)
              => draftPRs'[n] = draftPRs[n] + 1
        /\ \A f \in Flows :
              /\ (fl[f].pc = "cdp_push" /\ fl[f].runIssue = n
                      /\ draftPRs'[n] = draftPRs[n])
                    => ~saved'[n].hasDraftPR
              /\ (fl[f].pc = "cdp_begin" /\ fl[f].runIssue = n
                      /\ fl'[f].draftCfg /\ ~Falsy(tr[fl[f].self].branchName)
                      /\ ~saved[n].hasDraftPR)
                    => fl'[f].pc = "cdp_push"

\* C1: every step keeps draft-PR creation to at most once per issue, as
\* C1Step has it.
C1Theorem == [][C1Step]_vars

\* A run that ended with alwaysCreateDraftPR enabled and a branch established
\* and did not call pushAndCreatePR, the issue's one draft PR being open.
C1Witness ==
    \E f \in Flows :
        /\ fl[f].pc = "done" /\ fl[f].outcome = "returned"
        /\ fl[f].runIssue # 0
        /\ fl[f].draftCfg /\ ~fl[f].pushed
        /\ ~Falsy(tr[fl[f].self].branchName)
        /\ saved[fl[f].runIssue].hasDraftPR
        /\ draftPRs[fl[f].runIssue] = 1

\* A run of startWorking without the branch-prompt flag, with branch creation
\* not off, that found a saved branch name and has resolved its name.
SavedRun(f) ==
    /\ fl[f].runIssue # 0
    /\ ~fl[f].runPrompt
    /\ fl[f].createBranchConfig \in {"on", "prompt"}
    /\ ~Falsy(fl[f].entryBranch)
    /\ fl[f].resolved # Undefined

\* Such a run that directly follows another such run on the same issue.
SecondSavedRun(f) ==
    /\ SavedRun(f)
    /\ fl[f].prevIssue = fl[f].runIssue
    /\ ~Falsy(fl[f].prevEntry)

\* C2 as stated: a run that finds the saved branch B resolves to B without
\* the input box and without the template, and the run directly after it
\* on the same issue resolves to the same B.
C2Original ==
    \A f \in Flows :
        /\ SavedRun(f) =>
              /\ fl[f].resolved = fl[f].entryBranch
              /\ ~fl[f].prompted /\ ~fl[f].templated
        /\ SecondSavedRun(f) => fl[f].resolved = fl[f].prevEntry

\* C2, amended: a run that finds the saved branch B resolves to B without
\* the input box and without the template; the run directly after it on the
\* same issue resolves to B again unless the first run's checkout/create of B
\* failed and B was not <user>/issue<N>, in which case it resolves, also
\* without input box and template, to <user>/issue<N>, which the first run
\* saved in place of B.
C2Theorem ==
    \A f \in Flows :
        /\ SavedRun(f) =>
              /\ fl[f].resolved = fl[f].entryBranch
              /\ ~fl[f].prompted /\ ~fl[f].templated
        /\ SecondSavedRun(f) =>
              fl[f].resolved =
                  IF fl[f].prevFell
                  THEN getBasicBranchName(TheUser, fl[f].runIssue)
                  ELSE fl[f].prevEntry

\* Two runs in a row on an issue with a saved branch B: the first fell back
\* to <user>/issue<N>, the second resolved to that name and checked it out.
C2Witness ==
    \E f \in Flows :
        /\ SecondSavedRun(f)
        /\ fl[f].pc = "done" /\ fl[f].outcome = "returned"
        /\ fl[f].prevFell
        /\ fl[f].prevEntry # getBasicBranchName(TheUser, fl[f].runIssue)
        /\ fl[f].resolved = getBasicBranchName(TheUser, fl[f].runIssue)
        /\ fl[f].co = <<<<fl[f].resolved, TRUE>>>>

\* Two runs in a row on an issue with a saved branch B, both resolved to B.
C2Reused ==
    \E f \in Flows :
        /\ SecondSavedRun(f)
        /\ fl[f].pc = "done" /\ fl[f].outcome = "returned"
        /\ ~fl[f].prevFell
        /\ fl[f].resolved = fl[f].prevEntry

\* C3: when the checkout/create of the resolved name fails, createIssueBranch
\* retries once, with <user>/issue<N>, and the saved branch of the issue is
\* changed to that name only when the retry succeeded: after a run that
\* resolved a name there were at most two attempts, the second after a
\* failed first and with <user>/issue<N>, and the saved branch differs from
\* the resolved name only when the second attempt succeeded.
C3Claim ==
    \A f \in Flows :
        (fl[f].pc = "done" /\ fl[f].runIssue # 0 /\ fl[f].resolved # Undefined) =>
            LET n == fl[f].runIssue
                co == fl[f].co
                basicBranchName == getBasicBranchName(TheUser, n)
            IN  /\ Len(co) <= 2
                /\ Len(co) = 2 => (~co[1][2] /\ co[2][1] = basicBranchName)
                /\ saved[n].branch # fl[f].resolved =>
                      /\ Len(co) = 2 /\ co[2][2]
                      /\ saved[n].branch = basicBranchName

\* C4: stopWorking on a tracker whose startWorking never ran, or whose
\* stopWorking has already completed, performs no checkout, leaves the
\* commit-message box and the checked-out branch as they are, and returns
\* normally.
C4Step ==
    \A f \in Flows :
        (/\ fl[f].cmd = "tracker.stopWorking"
         /\ fl[f].pc = "stop_begin"
         /\ ~fl[f].selfStarted \/ fl[f].selfStopped)
            => /\ inputBox' = inputBox
               /\ HEAD' = HEAD
               /\ fl'[f].pc = "done"
               /\ fl'[f].outcome = "returned"
               /\ fl'[f].checkouts = 0

\* C4: every step of such a stopWorking is as C4Step has it.
C4Claim == [][C4Step]_vars

\* The commit messages startWorking writes into the commit-message box.
IssueMessages(n) ==
    {variableSubstitution(c, n, b, Undefined) :
        c \in ScmTemplates, b \in {Undefined, DefaultsBase}}

\* The flow is inside a tracker's startWorking, before its status bar shows.
BeforeStatusBar(f) ==
    fl[f].pc \in {"sw_defaults", "cib_begin", "cib_template", "cib_input",
                  "cib_basic", "co_exists", "co_do", "cib_catch",
                  "scm_begin", "scm_subst", "sb_show"}

C6Claim == \A f \in Flows : fl[f].outcome # "rejected"

\* The flow is inside a tracker's startWorking, past createIssueBranch.
PastIssueBranch(f) ==
    /\ fl[f].runIssue # 0
    /\ fl[f].pc \in {"scm_begin", "scm_subst", "sb_show", "cdp_begin", "cdp_push"}

\* The priority order of C7 for a run that has resolved its name.
PriorityOrder(f) ==
    LET rec == fl[f]
        basicBranchName == getBasicBranchName(TheUser, rec.runIssue)
    IN  /\ rec.runPrompt => (rec.prompted /\ ~rec.templated)
        /\ (~rec.runPrompt /\ ~Falsy(rec.entryBranch)) =>
              /\ ~rec.prompted /\ ~rec.templated
              /\ rec.resolved = rec.entryBranch
        /\ (~rec.runPrompt /\ Falsy(rec.entryBranch)) =>
              IF rec.createBranchConfig = "on"
              THEN /\ rec.templated /\ ~rec.prompted
                   /\ \E tpl \in BranchTemplates :
                        rec.raw = variableSubstitution(tpl, rec.runIssue,
                                                       Undefined, TheUser)
              ELSE rec.prompted /\ ~rec.templated
        /\ (rec.prompted \/ rec.templated) =>
              rec.resolved = IF Falsy(rec.raw) THEN basicBranchName ELSE rec.raw
        /\ Len(rec.co) >= 1 => rec.co[1][1] = rec.resolved

\* C7 as stated: every run resolves a name, in the priority order prompt
\* flag, saved branch, template (mode on), input box, with <user>/issue<N>
\* for a blank name, and passes it to checkout-or-create.
C7Original ==
    \A f \in Flows :
        /\ (fl[f].runIssue # 0 /\ fl[f].resolved # Undefined) => PriorityOrder(f)
        /\ PastIssueBranch(f) => fl[f].resolved # Undefined

\* C7, amended: with the mode off and no prompt requested createIssueBranch
\* resolves no name, asks nothing, uses neither saved branch nor template and
\* attempts no checkout; in every other case it resolves the name in the
\* priority order prompt flag, saved branch, template (mode on), input box,
\* with <user>/issue<N> for a blank name, and passes it to
\* checkout-or-create.
C7Theorem ==
    \A f \in Flows :
        /\ (fl[f].runIssue # 0 /\ fl[f].resolved # Undefined) =>
              /\ PriorityOrder(f)
              /\ fl[f].createBranchConfig # "off"
        /\ PastIssueBranch(f) =>
              IF fl[f].createBranchConfig = "off"
              THEN /\ ~fl[f].runPrompt
                   /\ fl[f].resolved = Undefined
                   /\ ~fl[f].prompted /\ ~fl[f].templated
                   /\ fl[f].co = <<>>
              ELSE fl[f].resolved # Undefined

\* A run with the prompt flag on an issue with a saved branch: the user was
\* asked, left the box blank, and <user>/issue<N> was checked out.
C7Witness ==
    \E f \in Flows :
        /\ PastIssueBranch(f)
        /\ fl[f].runPrompt /\ ~Falsy(fl[f].entryBranch)
        /\ fl[f].prompted /\ Falsy(fl[f].raw)
        /\ fl[f].resolved = getBasicBranchName(TheUser, fl[f].runIssue)
        /\ fl[f].resolved # fl[f].entryBranch
        /\ fl[f].co = <<<<fl[f].resolved, TRUE>>>>

\* A run with the mode off on an issue with a saved branch, past
\* createIssueBranch.
C7Off ==
    \E f \in Flows :
        /\ PastIssueBranch(f)
        /\ fl[f].createBranchConfig = "off"
        /\ ~Falsy(saved[fl[f].runIssue].branch)

\* The place of a logged step in the order of C8.
StepRank(e) ==
    CASE e = "defaults" -> 1
      [] e = "resolve" -> 2
      [] e = "checkout" -> 3
      [] e = "commit" -> 4
      [] e = "status" -> 5
      [] e = "push" -> 6

Logged(f, e) == \E i \in 1..Len(fl[f].steps) : fl[f].steps[i] = e

\* C8: within one run of startWorking the steps happen in the order fetch
\* defaults, resolve branch name, checkout/create, set commit message, show
\* status bar, push and create draft PR: a step is logged only after the
\* steps before it, the status bar shows only after the commit message was
\* set, and the push starts only after the checkout/create has finished.
C8Theorem ==
    \A f \in Flows :
        LET steps == fl[f].steps IN
        /\ \A i, j \in 1..Len(steps) :
              i < j => StepRank(steps[i]) < StepRank(steps[j])
        /\ Len(steps) >= 1 => steps[1] = "defaults"
        /\ Logged(f, "checkout") => Logged(f, "resolve")
        /\ Logged(f, "status") => Logged(f, "commit")
        /\ Logged(f, "push") => (Logged(f, "checkout") /\ Logged(f, "status"))
        /\ (fl[f].runIssue # 0 /\ fl[f].self # 0
                /\ tr[fl[f].self].statusBarItem = "shown")
              => Logged(f, "commit")

\* A run that did all six steps and returned.
C8Witness ==
    \E f \in Flows :
        /\ fl[f].pc = "done" /\ fl[f].outcome = "returned"
        /\ fl[f].steps = <<"defaults", "resolve", "checkout", "commit",
                           "status", "push">>

\* What C9 says of the flow after a fetch of the PR defaults: the fetch,
\* failed or not, leads on to createIssueBranch, and a failed one leaves
\* repoDefaults as it was; a run whose fetch failed and that returned has
\* set the commit message and shown the status bar, and has attempted the
\* draft PR when that is configured and a branch is established; a
\* stopWorking on a tracker without repoDefaults performs no checkout.
NotAborted ==
    \A f \in Flows :
        /\ fl[f].pc = "sw_defaults" =>
              /\ fl'[f].pc = "cib_begin"
              /\ fl'[f].outcome = "none"
              /\ fl'[f].defaultsFailed =>
                    tr'[fl[f].self].repoDefaults = tr[fl[f].self].repoDefaults
        /\ (fl'[f].runIssue # 0 /\ fl'[f].defaultsFailed /\ fl'[f].self # 0
                /\ fl'[f].pc = "done" /\ fl'[f].outcome = "returned"
                /\ fl[f].pc # "done") =>
              /\ Logged(f, "commit") /\ Logged(f, "status")
              /\ tr'[fl[f].self].statusBarItem = "shown"
              /\ (fl'[f].draftCfg /\ ~Falsy(tr'[fl[f].self].branchName)
                      /\ ~saved[fl[f].runIssue].hasDraftPR)
                    => fl'[f].pushed
        /\ (fl[f].pc = "stop_begin" /\ fl[f].selfDefaults = Undefined) =>
              /\ fl'[f].pc # "stop_checkout"
              /\ fl'[f].checkouts = 0
              /\ HEAD' = HEAD

\* The commit messages a run on issue n writes given the defaults' base.
MessagesWith(n, base) ==
    {variableSubstitution(c, n, base, Undefined) : c \in ScmTemplates}

C9Stopped ==
    \E f \in Flows :
        /\ fl[f].pc = "sci_assign" /\ fl[f].pending = 0
        /\ fl[f].selfDefaults = Undefined
        /\ fl[f].selfStarted
        /\ fl[f].checkouts = 0
        /\ tr[fl[f].self].stopped
        /\ tr[fl[f].self].statusBarItem = "disposed"
        /\ ~Falsy(tr[fl[f].self].branchName)
        /\ HEAD = tr[fl[f].self].branchName

\* C10: when the PR defaults cannot be fetched, createIssue and
\* doCreateIssue show one message and do nothing else: no URL is opened, the
\* remote API's createIssue is not called, no edit is applied, the cache is
\* not refreshed, and the command returns normally.
C10Theorem ==
    created.originFailed =>
        /\ created.cmd \in {"createIssue", "onDidAccept", "createIssueFromFile"}
        /\ created.pc = "done" /\ created.outcome = "returned"
        /\ created.messages = 1
        /\ created.urls = 0
        /\ created.apiCalls = 0
        /\ created.edits = 0
        /\ created.refreshes = 0

\* doCreateIssue, called for a line of text from the quick input, has
\* ended on a failed fetch of the defaults.
C10Witness ==
    /\ created.originFailed
    /\ created.cmd = "onDidAccept"
    /\ created.args.fromLine
    /\ created.pc = "done"

\* createIssue has ended on a failed fetch of the defaults.
C10CreateIssue ==
    /\ created.originFailed
    /\ created.cmd = "createIssue"
    /\ created.pc = "done"

\* The flow is inside a tracker's stopWorking.
InStop(f) == fl[f].pc \in {"stop_begin", "stop_checkout"}

\* C11: when a stopWorking on a tracker that was started ends, however it
\* ends, the tracker's status-bar item is not in the window any more and
\* the commit-message box of its repository is empty.
C11Step ==
    \A f \in Flows :
        (InStop(f) /\ fl[f].selfStarted /\ fl'[f].pc \notin {"stop_begin", "stop_checkout"})
            => /\ tr'[fl[f].self].statusBarItem # "shown"
               /\ tr[fl[f].self].repo => inputBox' = ""

\* C11: every step that ends such a stopWorking is as C11Step has it.
C11Claim == [][C11Step]_vars

\* The assignee the issue-generation text asks for: the user of its one
\* mention if the user is known, none otherwise.
AskedAssignee(text) ==
    IF Cardinality(MentionsAt(text)) = 1 /\ MentionedUsers(text) \subseteq UserMap
    THEN CHOOSE u \in MentionedUsers(text) : TRUE
    ELSE Undefined

C12Several ==
    /\ created.pc = "dci_insert"
    /\ Cardinality(MentionsAt(created.args.text)) = 2
    /\ created.args.assignee = Undefined
C12Unknown ==
    /\ created.pc = "dci_insert"
    /\ created.args.text = <<Mention("x"), Word("TODO")>>
    /\ created.args.assignee = Undefined

\* The flow is inside applyPatch.
InApplyPatch(f) == fl[f].pc \in {"ap_prepare", "ap_checkout", "ap_apply"}

\* The current session went through its fetch of the PR defaults and the
\* fetch failed.
SessionFetchFailed ==
    /\ currentIssue # 0
    /\ tr[currentIssue].started
    /\ tr[currentIssue].repoDefaults = Undefined

\* C13 as stated: a menu opened on a session whose fetch of the PR defaults
\* failed in startWorking does not offer the apply-patch action.
C13Original ==
    \A f \in Flows :
        (fl[f].cmd = "statusBar" /\ fl[f].pc = "sbm_pick" /\ SessionFetchFailed)
            => ~fl[f].offersPatch

\* C13: the menu offers the apply-patch action only when the current session
\* has a branch name and the menu's own fetch of the PR defaults, made each
\* time it is opened, gave defaults; and applyPatch never runs with an empty
\* base branch.
C13Theorem ==
    \A f \in Flows :
        /\ (fl[f].cmd = "statusBar" /\ fl[f].pc = "sbm_pick" /\ fl[f].offersPatch)
               => /\ currentIssue # 0
                  /\ ~Falsy(tr[currentIssue].branchName)
                  /\ fl[f].defaults # Undefined
        /\ InApplyPatch(f) => baseBranch(fl[f].defaults) # ""

\* C13: applyPatch was picked from a menu that offered it, on a session
\* with a branch name.
C13Witness ==
    \E f \in Flows :
        /\ fl[f].cmd = "statusBar" /\ fl[f].pc = "ap_prepare"
        /\ fl[f].offersPatch
        /\ currentIssue # 0 /\ tr[currentIssue].branchName = "topic"

\* C13: a menu on a session with a branch name does not offer the action
\* when its fetch of the defaults fails.
C13NotOffered ==
    \E f \in Flows :
        /\ fl[f].cmd = "statusBar" /\ fl[f].pc = "sbm_pick"
        /\ ~fl[f].offersPatch
        /\ currentIssue # 0 /\ ~Falsy(tr[currentIssue].branchName)

\* The step ends a command or handler of the issue-creation workflow.
EndsCreate == created.pc # "done" /\ created'.pc = "done"

\* C14, its parts: (a) when a handler has ended, createIssueInfo is set only
\* if the scratch document is open; (b) a createIssueFromFile that finds no
\* createIssueInfo does nothing; (c) when a createIssueFromFile that created
\* an issue ends, createIssueInfo is not set any more, so that the next
\* createIssueFromFile creates nothing.
C14Pending == (CreateQuiet' /\ created'.info.set) => created'.draftOpen
C14NoDraft ==
    (CreateQuiet /\ created'.cmd = "createIssueFromFile" /\ created'.ops # created.ops
       /\ ~created.info.set)
        => created' = [created EXCEPT !.cmd = "createIssueFromFile", !.ops = @ + 1,
                                      !.pc = "done", !.outcome = "returned",
                                      !.originFailed = FALSE, !.apiCalls = 0,
                                      !.edits = 0, !.urls = 0, !.refreshes = 0,
                                      !.messages = 0]
C14Created ==
    (EndsCreate /\ created.cmd = "createIssueFromFile" /\ created.pc = "dci_insert")
        => ~created'.info.set
C14Step == C14Pending /\ C14NoDraft /\ C14Created

\* C14: createIssueInfo exists only while the scratch document is open, a
\* createIssueFromFile without it is a no-op, and a createIssueFromFile that
\* created an issue leaves none behind for a second one.
C14Claim == [][C14Step]_vars

\* C14: each part on its own.
C14PendingOnly == [][C14Pending]_vars
C14NoDraftOnly == [][C14NoDraft]_vars
C14CreatedOnly == [][C14Created]_vars

\* Both flows found hasDraftPR false and called pushAndCreatePR(draft) for
\* issue n.
BothPushed(n) ==
    \A f \in Flows : fl[f].runIssue = n /\ fl[f].pushed

\* C15: however two startWorking flows for the same issue interleave at
\* their awaits, a draft pull request is created for the issue at most once,
\* and never have both flows read hasDraftPR as false and called
\* pushAndCreatePR(draft).
C15Claim ==
    \A n \in Issues : draftPRs[n] <= 1 /\ ~BothPushed(n)

\* C15: two draft pull requests for one issue.
C15Twice == \A n \in Issues : draftPRs[n] <= 1

\* The flow is inside createIssueBranch, and the step makes it return
\* normally: startWorking goes on to its next statement.
InIssueBranch(f) ==
    fl[f].pc \in {"cib_begin", "cib_template", "cib_input", "cib_basic",
                  "co_exists", "co_do", "cib_catch"}
IssueBranchReturns(f) ==
    InIssueBranch(f) /\ fl'[f].pc = EntryPc("setCommitMessageAndGitEvent")

\* The persisted branch of the run's issue when createIssueBranch began.
BranchBefore(f) ==
    IF fl[f].pc = "cib_begin" THEN saved[tr[fl[f].self].issue].branch
    ELSE fl[f].entryBranch

\* The checkouts and creations of the run that succeeded.
Succeeded(co) == {i \in 1..Len(co) : co[i][2]}

\* C16: when createIssueBranch returns normally, either branchName is
\* defined, is the persisted branch of the issue and is the branch the run
\* last checked out or created, with success; or branchName is undefined,
\* the run checked out and created nothing, the persisted branch is what it
\* was before the run, and createDraftPR would push nothing.
C16Step ==
    \A f \in Flows :
        IssueBranchReturns(f) =>
            LET t == fl[f].self
                n == tr[t].issue
                b == tr'[t].branchName
                co == fl'[f].co
            IN  IF b # Undefined
                THEN /\ saved'[n].branch = b
                     /\ co # <<>> /\ co[Len(co)] = <<b, TRUE>>
                     /\ HEAD' = b
                ELSE /\ Succeeded(co) = {}
                     /\ saved'[n].branch = BranchBefore(f)
                     /\ \A configuration \in BOOLEAN :
                            ~DraftGuard(configuration, b, saved'[n].hasDraftPR)

\* C16: every step that returns from createIssueBranch is as C16Step has it.
C16Claim == [][C16Step]_vars

\* C16 without the persisted branch being unchanged when branchName is
\* undefined.
C16ButPersisted ==
    [][\A f \in Flows :
          IssueBranchReturns(f) =>
              LET t == fl[f].self
                  n == tr[t].issue
                  b == tr'[t].branchName
                  co == fl'[f].co
              IN  IF b # Undefined
                  THEN /\ saved'[n].branch = b
                       /\ co # <<>> /\ co[Len(co)] = <<b, TRUE>>
                       /\ HEAD' = b
                  ELSE /\ Succeeded(co) = {}
                       /\ \A configuration \in BOOLEAN :
                              ~DraftGuard(configuration, b, saved'[n].hasDraftPR)]_vars

====
